---- MODULE Spec2Model ----
(***************************************************************************)
(* ptarmigan: the particle-beam builder (src/particle/builder.rs) and the  *)
(* default methods of the Field trait (src/field/mod.rs).                  *)
(*                                                                         *)
(* Real numbers (f64) are modelled as exact rationals <<n, d>> in lowest   *)
(* terms with d > 0, so rounding is not modelled.  The geometry crate      *)
(* (rotations, sin/cos, unitize) and the lcf module are outside the        *)
(* modelled sources: their applications are kept as terms that record the  *)
(* arguments they were given.                                              *)
(***************************************************************************)
EXTENDS Integers, Sequences, FiniteSets, TLC

VARIABLES b, recv, hist, run, run2, tape, call

vars == <<b, recv, hist, run, run2, tape, call>>

Null == <<>>

\* bounds of the model
MaxNum == 2
MaxCalls == 2
MaxDraws == 8
MaxTape == 7

(***************************************************************************)
(* f64 arithmetic, exact.                                                  *)
(***************************************************************************)
\* The operations evaluate their operands once: each is a function applied
\* to the operands' values.
Rat == Int \X Int

Abs(n) == IF n < 0 THEN -n ELSE n

GCD[m \in Nat, n \in Nat] == IF n = 0 THEN m ELSE GCD[n, m % n]

Norm[n \in Int, d \in Int] ==
    LET s == IF d < 0 THEN -1 ELSE 1
        g == GCD[Abs(n), Abs(d)]
    IN  <<(s * n) \div g, (s * d) \div g>>

Q(n, d) == Norm[n, d]
R(n) == <<n, 1>>

Add[x \in Rat, y \in Rat] == Norm[x[1] * y[2] + y[1] * x[2], x[2] * y[2]]
Sub[x \in Rat, y \in Rat] == Norm[x[1] * y[2] - y[1] * x[2], x[2] * y[2]]
Mul[x \in Rat, y \in Rat] == Norm[x[1] * y[1], x[2] * y[2]]
Div[x \in Rat, y \in Rat] == Norm[x[1] * y[2], x[2] * y[1]]
Neg[x \in Rat] == <<-x[1], x[2]>>
Magnitude[x \in Rat] == <<Abs(x[1]), x[2]>>
Less[x \in Rat, y \in Rat] == x[1] * y[2] < y[1] * x[2]
LessEq[x \in Rat, y \in Rat] == x[1] * y[2] <= y[1] * x[2]
\* sqrt, exact on the squares of rationals (the only arguments the model feeds it)
ISqrt[k \in Nat] == CHOOSE r \in 0..k : r * r = k
Sqrt[x \in Rat] == <<ISqrt[x[1]], ISqrt[x[2]]>>

fadd(x, y) == Add[x, y]
fsub(x, y) == Sub[x, y]
fmul(x, y) == Mul[x, y]
fdiv(x, y) == Div[x, y]
fneg(x) == Neg[x]
fabs(x) == Magnitude[x]
flt(x, y) == Less[x, y]
fle(x, y) == LessEq[x, y]
fgt(x, y) == Less[y, x]
fge(x, y) == LessEq[y, x]
fsqrt(x) == Sqrt[x]

Zero == R(0)
One == R(1)

(***************************************************************************)
(* BeamBuilder                                                             *)
(***************************************************************************)
SpeciesSet == {"Electron", "Positron", "Photon"}

\* Option<bool>
None == <<"None">>
Some(v) == <<"Some", v>>

ThreeVector(x, y, z) == <<x, y, z>>
Unpolarized == "unpolarized"
Uniform(r_max) == [kind |-> "Uniform", r_max |-> r_max]
Normal(sigma_x, sigma_y) == [kind |-> "Normal", sigma_x |-> sigma_x, sigma_y |-> sigma_y]
TruncNormal(sigma_x, sigma_y, x_max, y_max) ==
    [kind |-> "TruncNormal", sigma_x |-> sigma_x, sigma_y |-> sigma_y,
     x_max |-> x_max, y_max |-> y_max]

new(species, num) ==
    [species |-> species,
     num |-> num,
     weight |-> One,
     normal_espec |-> None,
     gamma |-> Zero,
     sigma |-> Zero,
     gamma_min |-> Zero,
     gamma_max |-> Zero,
     radial_dstr |-> Uniform(Zero),
     sigma_z |-> Zero,
     energy_chirp |-> Zero,
     angle |-> Zero,
     collision_plane_angle |-> Zero,
     rms_div |-> Zero,
     initial_z |-> Zero,
     offset |-> ThreeVector(Zero, Zero, Zero),
     pol |-> Unpolarized]

with_initial_z(s, initial_z) == [s EXCEPT !.initial_z = initial_z]

with_weight(s, weight) == [s EXCEPT !.weight = weight]

with_normal_energy_spectrum(s, gamma, sigma) ==
    [s EXCEPT !.normal_espec = Some(TRUE), !.gamma = gamma, !.sigma = sigma]

with_bremsstrahlung_spectrum(s, gamma_min, gamma_max) ==
    [s EXCEPT !.normal_espec = Some(FALSE), !.gamma_min = gamma_min, !.gamma_max = gamma_max]

with_divergence(s, rms_div) == [s EXCEPT !.rms_div = rms_div]

with_collision_angle(s, angle) == [s EXCEPT !.angle = angle]

\* variant: sets the collision angle instead
with_collision_plane_at_swapped(s, angle) == [s EXCEPT !.angle = angle]
with_collision_plane_at(s, angle) == [s EXCEPT !.collision_plane_angle = angle]

with_normally_distributed_xy(s, sigma_x, sigma_y) ==
    [s EXCEPT !.radial_dstr = Normal(sigma_x, sigma_y)]

with_trunc_normally_distributed_xy(s, sigma_x, sigma_y, x_max, y_max) ==
    [s EXCEPT !.radial_dstr = TruncNormal(sigma_x, sigma_y, x_max, y_max)]

with_uniformly_distributed_xy(s, r_max) == [s EXCEPT !.radial_dstr = Uniform(r_max)]

with_length(s, sigma_z) == [s EXCEPT !.sigma_z = sigma_z]

with_offset(s, offset) == [s EXCEPT !.offset = offset]

with_energy_chirp(s, rho) == [s EXCEPT !.energy_chirp = rho]

with_polarization(s, sv) == [s EXCEPT !.pol = sv]

\* A call of a with_* method, as the caller writes it: <<method, arguments>>.
Apply(s, c) ==
    CASE c[1] = "with_initial_z" -> with_initial_z(s, c[2])
      [] c[1] = "with_weight" -> with_weight(s, c[2])
      [] c[1] = "with_normal_energy_spectrum" -> with_normal_energy_spectrum(s, c[2], c[3])
      [] c[1] = "with_bremsstrahlung_spectrum" -> with_bremsstrahlung_spectrum(s, c[2], c[3])
      [] c[1] = "with_divergence" -> with_divergence(s, c[2])
      [] c[1] = "with_collision_angle" -> with_collision_angle(s, c[2])
      [] c[1] = "with_collision_plane_at" -> with_collision_plane_at(s, c[2])
      [] c[1] = "with_normally_distributed_xy" -> with_normally_distributed_xy(s, c[2], c[3])
      [] c[1] = "with_trunc_normally_distributed_xy" ->
            with_trunc_normally_distributed_xy(s, c[2], c[3], c[4], c[5])
      [] c[1] = "with_uniformly_distributed_xy" -> with_uniformly_distributed_xy(s, c[2])
      [] c[1] = "with_length" -> with_length(s, c[2])
      [] c[1] = "with_offset" -> with_offset(s, c[2])
      [] c[1] = "with_energy_chirp" -> with_energy_chirp(s, c[2])
      [] c[1] = "with_polarization" -> with_polarization(s, c[2])

RECURSIVE ApplyAll(_, _)
ApplyAll(s, cs) == IF cs = <<>> THEN s ELSE ApplyAll(Apply(s, Head(cs)), Tail(cs))

(***************************************************************************)
(* The random source.  A raw draw is one value of the generator's stream;  *)
(* gen_f64 maps it into [0,1), StandardNormal onto a symmetric sample.     *)
(***************************************************************************)
RawDraws == {0, 1, 2}

gen_f64(raw) == Q(raw, Cardinality(RawDraws))
StandardNormal(raw) == R(raw - 1)

\* the generator's position in its stream, tracked up to MaxDraws
Advance(r, k) == IF r.rng + k > MaxDraws THEN MaxDraws ELSE r.rng + k

(***************************************************************************)
(* RadialDistribution::sample, one attempt: [ok, xy].  The uniform disk    *)
(* keeps its two draws as a term (its polar map is not rational).          *)
(***************************************************************************)
radial_sample(dstr, d1, d2) ==
    CASE dstr.kind = "Uniform" ->
            [ok |-> TRUE,
             xy |-> IF dstr.r_max = Zero THEN <<"point", Zero, Zero>>
                    ELSE <<"uniform_disk", dstr.r_max, gen_f64(d1), gen_f64(d2)>>]
      [] dstr.kind = "Normal" ->
            [ok |-> TRUE,
             xy |-> <<"point", fmul(dstr.sigma_x, StandardNormal(d1)),
                               fmul(dstr.sigma_y, StandardNormal(d2))>>]
      [] dstr.kind = "TruncNormal" ->
            LET x == fmul(dstr.sigma_x, StandardNormal(d1))
                y == fmul(dstr.sigma_y, StandardNormal(d2))
            IN  [ok |-> fle(fabs(x), dstr.x_max) /\ fle(fabs(y), dstr.y_max),
                 xy |-> <<"point", x, y>>]

(***************************************************************************)
(* BeamBuilder::build, step by step.  A run record holds the position in   *)
(* build (pc), the index i of the map closure, the particles collected so  *)
(* far (out), the generator position (rng) and the closure's locals.       *)
(***************************************************************************)
Locals == [n0 |-> Null, n1 |-> Null, x |-> Null, gamma |-> Null, dz |-> Null,
           u |-> Null, t |-> Null, z |-> Null, xy |-> Null]

IdleRun == [pc |-> "idle", i |-> 0, out |-> <<>>, rng |-> 0, loc |-> Locals]

\* line 173: self.normal_espec.expect(..)
\* variant: the spectrum is not required
build_begin_unchecked(s, r) == [r EXCEPT !.pc = "iter"]
build_begin(s, r) ==
    IF s.normal_espec = None THEN [r EXCEPT !.pc = "panic"] ELSE [r EXCEPT !.pc = "iter"]

\* lines 174-177 and 245: (0..num).map(..).collect(), and the branch on the spectrum
next_index(s, r) ==
    IF r.i < s.num
        THEN [r EXCEPT !.pc = IF s.normal_espec = Some(TRUE) THEN "normal" ELSE "brem"]
        ELSE [r EXCEPT !.pc = "done"]

\* lines 178-190: one pass of the normal-spectrum loop
\* variant: no gamma > 1 floor
normal_loop_nofloor(s, r, d1, d2) ==
    LET rho == fneg(s.energy_chirp)
        n0 == StandardNormal(d1)
        n1 == StandardNormal(d2)
        n2 == fadd(fmul(rho, n0), fmul(fsqrt(fsub(One, fmul(rho, rho))), n1))
        dz == fmul(s.sigma_z, n0)
        gamma == fadd(s.gamma, fmul(s.sigma, n2))
    IN  [r EXCEPT !.rng = Advance(r, 2), !.pc = "angles",
                  !.loc = [r.loc EXCEPT !.n0 = n0, !.n1 = n1, !.gamma = gamma, !.dz = dz]]
\* variant: rho = self.energy_chirp
normal_loop_poschirp(s, r, d1, d2) ==
    LET rho == s.energy_chirp
        n0 == StandardNormal(d1)
        n1 == StandardNormal(d2)
        n2 == fadd(fmul(rho, n0), fmul(fsqrt(fsub(One, fmul(rho, rho))), n1))
        dz == fmul(s.sigma_z, n0)
        gamma == fadd(s.gamma, fmul(s.sigma, n2))
    IN  IF fgt(gamma, One)
            THEN [r EXCEPT !.rng = Advance(r, 2), !.pc = "angles",
                           !.loc = [r.loc EXCEPT !.n0 = n0, !.n1 = n1,
                                                 !.gamma = gamma, !.dz = dz]]
            ELSE [r EXCEPT !.rng = Advance(r, 2)]
\* variant: the retries are limited, then an error
normal_loop_guarded(s, r, d1, d2) ==
    LET rho == fneg(s.energy_chirp)
        n0 == StandardNormal(d1)
        n1 == StandardNormal(d2)
        n2 == fadd(fmul(rho, n0), fmul(fsqrt(fsub(One, fmul(rho, rho))), n1))
        dz == fmul(s.sigma_z, n0)
        gamma == fadd(s.gamma, fmul(s.sigma, n2))
    IN  IF fgt(gamma, One)
            THEN [r EXCEPT !.rng = Advance(r, 2), !.pc = "angles",
                           !.loc = [r.loc EXCEPT !.n0 = n0, !.n1 = n1,
                                                 !.gamma = gamma, !.dz = dz]]
            ELSE IF r.rng >= MaxDraws THEN [r EXCEPT !.pc = "panic"]
            ELSE [r EXCEPT !.rng = Advance(r, 2)]
normal_loop(s, r, d1, d2) ==
    LET rho == fneg(s.energy_chirp)
        n0 == StandardNormal(d1)
        n1 == StandardNormal(d2)
        n2 == fadd(fmul(rho, n0), fmul(fsqrt(fsub(One, fmul(rho, rho))), n1))
        dz == fmul(s.sigma_z, n0)
        gamma == fadd(s.gamma, fmul(s.sigma, n2))
    IN  IF fgt(gamma, One)
            THEN [r EXCEPT !.rng = Advance(r, 2), !.pc = "angles",
                           !.loc = [r.loc EXCEPT !.n0 = n0, !.n1 = n1,
                                                 !.gamma = gamma, !.dz = dz]]
            ELSE [r EXCEPT !.rng = Advance(r, 2)]

\* lines 192-201: one pass of the bremsstrahlung rejection loop
brem_density(x) == fadd(fsub(fdiv(R(4), fmul(R(3), x)), Q(4, 3)), x)

\* variant: x = x_min + u
brem_loop_unscaled(s, r, d1, d2) ==
    LET x_min == fdiv(s.gamma_min, s.gamma_max)
        y_max == brem_density(x_min)
        x == fadd(x_min, gen_f64(d1))
        u == gen_f64(d2)
        y == brem_density(x)
    IN  IF fle(u, fdiv(y, y_max))
            THEN [r EXCEPT !.rng = Advance(r, 2), !.pc = "brem_dz",
                           !.loc = [r.loc EXCEPT !.x = x]]
            ELSE [r EXCEPT !.rng = Advance(r, 2)]
brem_loop(s, r, d1, d2) ==
    LET x_min == fdiv(s.gamma_min, s.gamma_max)
        y_max == brem_density(x_min)
        x == fadd(x_min, fmul(fsub(One, x_min), gen_f64(d1)))
        u == gen_f64(d2)
        y == brem_density(x)
    IN  IF fle(u, fdiv(y, y_max))
            THEN [r EXCEPT !.rng = Advance(r, 2), !.pc = "brem_dz",
                           !.loc = [r.loc EXCEPT !.x = x]]
            ELSE [r EXCEPT !.rng = Advance(r, 2)]

\* lines 203-204
brem_dz(s, r, d1) ==
    LET n0 == StandardNormal(d1)
    IN  [r EXCEPT !.rng = Advance(r, 1), !.pc = "angles",
                  !.loc = [r.loc EXCEPT !.n0 = n0, !.dz = fmul(s.sigma_z, n0),
                                        !.gamma = fmul(r.loc.x, s.gamma_max)]]

\* lines 207-220: the momentum; sqrt, sin, cos, the rotation and the
\* normalisation are kept as a term over their arguments
momentum(s, gamma, theta_x, theta_y) ==
    [mag |-> IF s.species \in {"Electron", "Positron"}
                THEN <<"-sqrt", fsub(fmul(gamma, gamma), One)>>
                ELSE <<"-", gamma>>,
     theta_x |-> theta_x,
     theta_y |-> theta_y,
     rotate_around_z |-> s.collision_plane_angle,
     norm |-> IF s.species \in {"Electron", "Positron"} THEN "unitize" ELSE "lightlike"]

\* lines 222-228
\* variant: t shifted by dz
launch_by_dz(s, dz) ==
    IF fge(s.offset[3], Zero)
        THEN <<fsub(fneg(s.initial_z), dz), fadd(fadd(s.initial_z, s.offset[3]), dz)>>
        ELSE <<fsub(fneg(s.initial_z), fabs(s.offset[3])), fadd(s.initial_z, dz)>>
launch(s, dz) ==
    IF fge(s.offset[3], Zero)
        THEN <<fneg(s.initial_z), fadd(fadd(s.initial_z, s.offset[3]), dz)>>
        ELSE <<fsub(fneg(s.initial_z), fabs(s.offset[3])), fadd(s.initial_z, dz)>>

\* lines 207-228
angles(s, r, d1, d2) ==
    LET theta_x == fadd(s.angle, fmul(s.rms_div, StandardNormal(d1)))
        theta_y == fmul(s.rms_div, StandardNormal(d2))
        tz == launch(s, r.loc.dz)
    IN  [r EXCEPT !.rng = Advance(r, 2), !.pc = "radial",
                  !.loc = [r.loc EXCEPT !.u = momentum(s, r.loc.gamma, theta_x, theta_y),
                                        !.t = tz[1], !.z = tz[2]]]

\* line 230: one attempt of the transverse sample
radial(s, r, d1, d2) ==
    LET a == radial_sample(s.radial_dstr, d1, d2)
    IN  IF a.ok
            THEN [r EXCEPT !.rng = Advance(r, 2), !.pc = "emit",
                           !.loc = [r.loc EXCEPT !.xy = a.xy]]
            ELSE [r EXCEPT !.rng = Advance(r, 2)]

\* lines 232-243
Particle(s, l, id, parent_id) ==
    [species |-> s.species,
     r |-> [t |-> l.t, xy |-> l.xy, plus |-> <<s.offset[1], s.offset[2]>>, z |-> l.z,
            rotate_around_y |-> s.angle, rotate_around_z |-> s.collision_plane_angle],
     u |-> l.u,
     pol |-> s.pol,
     weight |-> s.weight,
     id |-> id,
     parent_id |-> parent_id]

\* variant: ids from 1
emit_id_from_one(s, r) ==
    [r EXCEPT !.out = Append(r.out, Particle(s, r.loc, r.i + 1, r.i + 1)),
              !.i = r.i + 1, !.pc = "iter", !.loc = Locals]
emit(s, r) ==
    [r EXCEPT !.out = Append(r.out, Particle(s, r.loc, r.i, r.i)),
              !.i = r.i + 1, !.pc = "iter", !.loc = Locals]

\* how many draws the step at r.pc takes, and the step itself
Needs(r) ==
    CASE r.pc \in {"normal", "brem", "angles", "radial"} -> 2
      [] r.pc = "brem_dz" -> 1
      [] OTHER -> 0

Step(s, r, d1, d2) ==
    CASE r.pc = "idle" -> build_begin(s, r)
      [] r.pc = "iter" -> next_index(s, r)
      [] r.pc = "normal" -> normal_loop(s, r, d1, d2)
      [] r.pc = "brem" -> brem_loop(s, r, d1, d2)
      [] r.pc = "brem_dz" -> brem_dz(s, r, d1)
      [] r.pc = "angles" -> angles(s, r, d1, d2)
      [] r.pc = "radial" -> radial(s, r, d1, d2)
      [] r.pc = "emit" -> emit(s, r)

(***************************************************************************)
(* Field: the default methods of the trait.  The variants' own fields()    *)
(* and the lcf functions are kept as terms over their arguments.  A        *)
(* four-position is [base, c]: base + SPEED_OF_LIGHT * c, componentwise.   *)
(***************************************************************************)
FieldModels == {"Stub", "Laser"}

FourVector(t, x, y, z) == <<t, x, y, z>>
Zero4 == FourVector(Zero, Zero, Zero, Zero)
Zero3 == ThreeVector(Zero, Zero, Zero)
At(r) == [base |-> r, c |-> Zero4]

\* lines 183-185
fields_default(r) == <<Zero3, Zero3, Zero>>
\* a variant that implements fields itself
fields_override(r) == <<<<"E", r>>, <<"B", r>>, <<"a", r>>>>
fields(model, r) == IF model = "Stub" THEN fields_default(r) ELSE fields_override(r)

vay_push(r, u, E, B, rqm, dt, eqn) == <<"lcf::vay_push", r, u, E, B, rqm, dt, eqn>>
lcf_radiate(u, E, B, a, dt, rng, mode) == <<"lcf::radiate", u, E, B, a, dt, rng, mode>>
lcf_pair_create(ell, pol, E, B, a, dt, rng, rate_increase) ==
    <<"lcf::pair_create", ell, pol, E, B, a, dt, rng, rate_increase>>

\* line 149: r + 0.5 * SPEED_OF_LIGHT * u * dt / u[0]
half_step(r, u, dt) ==
    [base |-> r.base,
     c |-> [k \in 1..4 |-> fadd(r.c[k], fdiv(fmul(fmul(Q(1, 2), u[k]), dt), u[1]))]]

\* lines 147-152; log is the sequence of calls made, ret the value returned
\* variant: the field is looked up at the given r
push_at_r(model, r, u, rqm, dt, eqn) ==
    LET r2 == half_step(r, u, dt)
        f == fields(model, r)
    IN  [log |-> <<<<"fields", r>>, <<"vay_push", r2, u, f[1], f[2], rqm, dt, eqn>>>>,
         ret |-> vay_push(r2, u, f[1], f[2], rqm, dt, eqn)]
push(model, r, u, rqm, dt, eqn) ==
    LET r2 == half_step(r, u, dt)
        f == fields(model, r2)
    IN  [log |-> <<<<"fields", r2>>, <<"vay_push", r2, u, f[1], f[2], rqm, dt, eqn>>>>,
         ret |-> vay_push(r2, u, f[1], f[2], rqm, dt, eqn)]

\* lines 158-161
radiate(model, r, u, dt, rng, mode) ==
    LET f == fields(model, r)
    IN  [log |-> <<<<"fields", r>>, <<"radiate", u, f[1], f[2], f[3], dt, rng, mode>>>>,
         ret |-> lcf_radiate(u, f[1], f[2], f[3], dt, rng, mode)]

\* lines 174-177
pair_create(model, r, ell, pol, dt, rng, rate_increase) ==
    LET f == fields(model, r)
    IN  [log |-> <<<<"fields", r>>,
                   <<"pair_create", ell, pol, f[1], f[2], f[3], dt, rng, rate_increase>>>>,
         ret |-> lcf_pair_create(ell, pol, f[1], f[2], f[3], dt, rng, rate_increase)]

(***************************************************************************)
(* Inputs                                                                  *)
(***************************************************************************)
Nums == 0..MaxNum

CallsOf(m) ==
    CASE m = "with_initial_z" -> {<<m, Zero>>, <<m, R(5)>>}
      [] m = "with_weight" -> {<<m, One>>, <<m, R(2)>>}
      [] m = "with_normal_energy_spectrum" -> {<<m, R(2), One>>, <<m, One, Zero>>}
      [] m = "with_bremsstrahlung_spectrum" -> {<<m, One, R(2)>>, <<m, R(2), R(2)>>}
      [] m = "with_divergence" -> {<<m, Zero>>, <<m, One>>}
      [] m = "with_collision_angle" -> {<<m, Zero>>, <<m, One>>}
      [] m = "with_collision_plane_at" -> {<<m, Zero>>, <<m, R(2)>>}
      [] m = "with_normally_distributed_xy" -> {<<m, One, R(2)>>}
      [] m = "with_trunc_normally_distributed_xy" -> {<<m, One, One, Q(1, 2), One>>}
      [] m = "with_uniformly_distributed_xy" -> {<<m, Zero>>, <<m, R(2)>>}
      [] m = "with_length" -> {<<m, Zero>>, <<m, One>>}
      [] m = "with_offset" -> {<<m, ThreeVector(One, Zero, R(2))>>,
                               <<m, ThreeVector(Zero, One, R(-1))>>}
      [] m = "with_energy_chirp" -> {<<m, Zero>>, <<m, Q(3, 5)>>}
      [] m = "with_polarization" -> {<<m, Unpolarized>>, <<m, "linear_x">>}

NoCall == [op |-> "none"]

Idle == /\ run = IdleRun
        /\ run2 = IdleRun
        /\ tape = <<>>
        /\ call = NoCall

(***************************************************************************)
(* Actions: the builder's fluent calls                                     *)
(***************************************************************************)
\* let b' = b.with_*(..): the receiver is borrowed (&self) and stays as it was
Call(c) ==
    /\ run.pc = "idle"
    /\ Len(hist) < MaxCalls
    /\ b' = Apply(b, c)
    /\ recv' = b
    /\ hist' = Append(hist, c)
    /\ UNCHANGED <<run, run2, tape, call>>

WithInitialZ == \E c \in CallsOf("with_initial_z") : Call(c)
WithWeight == \E c \in CallsOf("with_weight") : Call(c)
WithNormalEnergySpectrum == \E c \in CallsOf("with_normal_energy_spectrum") : Call(c)
WithBremsstrahlungSpectrum == \E c \in CallsOf("with_bremsstrahlung_spectrum") : Call(c)
WithDivergence == \E c \in CallsOf("with_divergence") : Call(c)
WithCollisionAngle == \E c \in CallsOf("with_collision_angle") : Call(c)
WithCollisionPlaneAt == \E c \in CallsOf("with_collision_plane_at") : Call(c)
WithNormallyDistributedXY == \E c \in CallsOf("with_normally_distributed_xy") : Call(c)
WithTruncNormallyDistributedXY ==
    \E c \in CallsOf("with_trunc_normally_distributed_xy") : Call(c)
WithUniformlyDistributedXY == \E c \in CallsOf("with_uniformly_distributed_xy") : Call(c)
WithLength == \E c \in CallsOf("with_length") : Call(c)
WithOffset == \E c \in CallsOf("with_offset") : Call(c)
WithEnergyChirp == \E c \in CallsOf("with_energy_chirp") : Call(c)
WithPolarization == \E c \in CallsOf("with_polarization") : Call(c)

(***************************************************************************)
(* Actions: build, with draws from an arbitrary stream                     *)
(***************************************************************************)
Frame == UNCHANGED <<b, recv, hist, run2, tape, call>>

Build == run.pc = "idle" /\ run' = build_begin(b, run) /\ Frame
NextIndex == run.pc = "iter" /\ run' = next_index(b, run) /\ Frame
NormalLoop ==
    /\ run.pc = "normal"
    /\ \E d1, d2 \in RawDraws : run' = normal_loop(b, run, d1, d2)
    /\ Frame
BremLoop ==
    /\ run.pc = "brem"
    /\ \E d1, d2 \in RawDraws : run' = brem_loop(b, run, d1, d2)
    /\ Frame
BremDz ==
    /\ run.pc = "brem_dz"
    /\ \E d1 \in RawDraws : run' = brem_dz(b, run, d1)
    /\ Frame
Angles ==
    /\ run.pc = "angles"
    /\ \E d1, d2 \in RawDraws : run' = angles(b, run, d1, d2)
    /\ Frame
Radial ==
    /\ run.pc = "radial"
    /\ \E d1, d2 \in RawDraws : run' = radial(b, run, d1, d2)
    /\ Frame
Emit == run.pc = "emit" /\ run' = emit(b, run) /\ Frame

BuildStep ==
    \/ Build
    \/ NextIndex
    \/ NormalLoop
    \/ BremLoop
    \/ BremDz
    \/ Angles
    \/ Radial
    \/ Emit

(***************************************************************************)
(* Specification of the builder's configuration (new, with_*, and the      *)
(* entry of build up to the choice of the sampling loop)                   *)
(***************************************************************************)
InitCfg ==
    /\ \E species \in SpeciesSet, num \in Nums : b = new(species, num)
    /\ recv = Null
    /\ hist = <<>>
    /\ Idle

NextCfg ==
    \/ WithInitialZ
    \/ WithWeight
    \/ WithNormalEnergySpectrum
    \/ WithBremsstrahlungSpectrum
    \/ WithDivergence
    \/ WithCollisionAngle
    \/ WithCollisionPlaneAt
    \/ WithNormallyDistributedXY
    \/ WithTruncNormallyDistributedXY
    \/ WithUniformlyDistributedXY
    \/ WithLength
    \/ WithOffset
    \/ WithEnergyChirp
    \/ WithPolarization
    \/ Build
    \/ NextIndex

SpecCfg == InitCfg /\ [][NextCfg]_vars

(***************************************************************************)
(* Specification of build: a builder configured by a chain of with_*       *)
(* calls, then build(rng) one step at a time                               *)
(***************************************************************************)
Opt(cs) == {<<>>} \cup {<<c>> : c \in cs}

SpectrumChains ==
    Opt(CallsOf("with_normal_energy_spectrum") \cup CallsOf("with_bremsstrahlung_spectrum"))
        \cup {<<<<"with_bremsstrahlung_spectrum", One, R(2)>>,
                <<"with_normal_energy_spectrum", R(2), One>>>>}

LongitudinalChains ==
    {sp \o ln \o ch \o off \o iz :
        sp \in SpectrumChains,
        ln \in Opt({<<"with_length", One>>}),
        ch \in Opt({<<"with_energy_chirp", Q(3, 5)>>}),
        off \in Opt(CallsOf("with_offset")),
        iz \in Opt({<<"with_initial_z", R(5)>>})}

TransverseChains ==
    {sp \o tr :
        sp \in {<<<<"with_bremsstrahlung_spectrum", R(2), R(2)>>>>},
        tr \in {<<<<"with_divergence", One>>, <<"with_collision_angle", One>>,
                  <<"with_collision_plane_at", R(2)>>, <<"with_weight", R(2)>>,
                  <<"with_polarization", "linear_x">>>>,
                <<<<"with_normally_distributed_xy", One, R(2)>>>>,
                <<<<"with_uniformly_distributed_xy", R(2)>>>>}}
    \cup
    {sp \o <<<<"with_trunc_normally_distributed_xy", One, One, Q(1, 2), One>>>> :
        sp \in {<<<<"with_normal_energy_spectrum", R(2), One>>>>,
                <<<<"with_bremsstrahlung_spectrum", One, R(2)>>>>}}

BuildChains == LongitudinalChains \cup TransverseChains

InitFrom(chains, kinds) ==
    /\ \E species \in kinds, num \in Nums, cs \in chains :
            /\ b = ApplyAll(new(species, num), cs)
            /\ hist = cs
            /\ recv = IF cs = <<>> THEN Null
                      ELSE ApplyAll(new(species, num), SubSeq(cs, 1, Len(cs) - 1))
    /\ Idle

Init == InitFrom(BuildChains, SpeciesSet)

Next == BuildStep

Spec == Init /\ [][Next]_vars

(***************************************************************************)
(* Specification of build under fair draws: a draw that the loop accepts,  *)
(* possible again and again, is eventually drawn; the code itself never    *)
(* stops between steps                                                     *)
(***************************************************************************)
LiveChains ==
    {<<>>,
     <<<<"with_normal_energy_spectrum", R(2), One>>, <<"with_length", One>>,
       <<"with_energy_chirp", Q(3, 5)>>>>,
     <<<<"with_normal_energy_spectrum", One, Zero>>>>,
     <<<<"with_bremsstrahlung_spectrum", One, R(2)>>, <<"with_length", One>>>>,
     <<<<"with_normal_energy_spectrum", R(2), One>>,
       <<"with_trunc_normally_distributed_xy", One, One, Q(1, 2), One>>>>,
     <<<<"with_bremsstrahlung_spectrum", R(2), R(2)>>,
       <<"with_trunc_normally_distributed_xy", One, One, R(-1), One>>>>}

InitLive == InitFrom(LiveChains, {"Electron", "Photon"})

SpecLive ==
    /\ InitLive
    /\ [][Next]_vars
    /\ WF_vars(Next)
    /\ SF_vars(NormalLoop /\ run'.pc = "angles")
    /\ SF_vars(BremLoop /\ run'.pc = "brem_dz")
    /\ SF_vars(Radial /\ run'.pc = "emit")

(***************************************************************************)
(* Specification of two runs of build on the same configuration, each fed  *)
(* the same stream: tape holds the stream as far as either run has read it *)
(***************************************************************************)
\* variant: draws from a source other than rng
drawn_from_entropy(r, k, d) == IF k <= Needs(r) THEN TRUE ELSE d = 0
\* d is the k-th next value rng yields to the run r
drawn(r, k, d) ==
    IF k <= Needs(r)
        THEN (r.rng + k <= Len(tape) => d = tape[r.rng + k])
        ELSE d = 0

Read(r, d1, d2) ==
    IF r.rng + Needs(r) <= Len(tape)
        THEN tape
        ELSE SubSeq(tape, 1, r.rng) \o SubSeq(<<d1, d2>>, 1, Needs(r))

Running(r) ==
    /\ r.pc \notin {"done", "panic"}
    /\ r.rng + Needs(r) <= MaxTape
    /\ r.rng + Needs(r) <= MaxDraws

RunA ==
    /\ Running(run)
    /\ \E d1, d2 \in RawDraws :
            /\ drawn(run, 1, d1)
            /\ drawn(run, 2, d2)
            /\ run' = Step(b, run, d1, d2)
            /\ tape' = Read(run, d1, d2)
    /\ UNCHANGED <<b, recv, hist, run2, call>>

RunB ==
    /\ Running(run2)
    /\ \E d1, d2 \in RawDraws :
            /\ drawn(run2, 1, d1)
            /\ drawn(run2, 2, d2)
            /\ run2' = Step(b, run2, d1, d2)
            /\ tape' = Read(run2, d1, d2)
    /\ UNCHANGED <<b, recv, hist, run, call>>

DetChains ==
    {<<>>,
     <<<<"with_normal_energy_spectrum", R(2), One>>, <<"with_length", One>>,
       <<"with_energy_chirp", Q(3, 5)>>>>,
     <<<<"with_bremsstrahlung_spectrum", One, R(2)>>, <<"with_length", One>>,
       <<"with_divergence", One>>>>,
     <<<<"with_normal_energy_spectrum", R(2), One>>,
       <<"with_trunc_normally_distributed_xy", One, One, Q(1, 2), One>>>>}

InitDet == InitFrom(DetChains, {"Electron"})

NextDet == RunA \/ RunB

SpecDet == InitDet /\ [][NextDet]_vars

(***************************************************************************)
(* Specification of the Field trait's default methods, one call at a time  *)
(***************************************************************************)
Positions == {At(FourVector(Zero, One, Zero, R(2))), At(FourVector(One, Zero, Zero, R(-3)))}
Momenta == {FourVector(R(2), Zero, Zero, R(-1)), FourVector(R(3), One, Zero, R(-2))}
Steps == {Zero, One, Q(1, 2)}
Equations == {"Lorentz", "LandauLifshitz", "ModifiedLandauLifshitz"}
Modes == {"Quantum", "Classical"}

Push ==
    /\ \E model \in FieldModels, r \in Positions, u \in Momenta, rqm \in {R(-1), One},
          dt \in Steps, eqn \in Equations :
            call' = [op |-> "push", model |-> model,
                     args |-> [r |-> r, u |-> u, rqm |-> rqm, dt |-> dt, eqn |-> eqn],
                     done |-> push(model, r, u, rqm, dt, eqn)]
    /\ UNCHANGED <<b, recv, hist, run, run2, tape>>

Radiate ==
    /\ \E model \in FieldModels, r \in Positions, u \in Momenta, dt \in Steps,
          mode \in Modes :
            call' = [op |-> "radiate", model |-> model,
                     args |-> [r |-> r, u |-> u, dt |-> dt, rng |-> "rng", mode |-> mode],
                     done |-> radiate(model, r, u, dt, "rng", mode)]
    /\ UNCHANGED <<b, recv, hist, run, run2, tape>>

PairCreate ==
    /\ \E model \in FieldModels, r \in Positions, ell \in Momenta, dt \in Steps,
          pol \in {Unpolarized, "linear_x"}, rate_increase \in {One, R(10)} :
            call' = [op |-> "pair_create", model |-> model,
                     args |-> [r |-> r, ell |-> ell, pol |-> pol, dt |-> dt, rng |-> "rng",
                               rate_increase |-> rate_increase],
                     done |-> pair_create(model, r, ell, pol, dt, "rng", rate_increase)]
    /\ UNCHANGED <<b, recv, hist, run, run2, tape>>

InitField ==
    /\ b = new("Electron", 0)
    /\ recv = Null
    /\ hist = <<>>
    /\ Idle

NextField == Push \/ Radiate \/ PairCreate

SpecField == InitField /\ [][NextField]_vars

(***************************************************************************)
(* Properties                                                              *)
(***************************************************************************)
NormalSpectrum == b.normal_espec = Some(TRUE)
BremSpectrum == b.normal_espec = Some(FALSE)
Selectors == {"with_normal_energy_spectrum", "with_bremsstrahlung_spectrum"}

\* C1: when build returns with a spectrum selected, it returns exactly num
\* particles, and the particle at position i has id i and parent id i
\* (sequence positions are 1-based here, ids 0-based).
C1_ExactlyNumParticlesWithIds ==
    /\ run.pc = "done" => Len(run.out) = b.num
    /\ Len(run.out) <= b.num
    /\ \A k \in 1..Len(run.out) : run.out[k].id = k - 1 /\ run.out[k].parent_id = k - 1

C1_Witness ==
    /\ run.pc = "done"
    /\ b.num = 2
    /\ NormalSpectrum
    /\ {run.out[k].id : k \in 1..Len(run.out)} = {0, 1}

\* C2: build on a builder on which no spectrum selector was ever called
\* fails, before any draw is taken and before any particle is produced.
C2_NoSpectrumFailsFast ==
    (run.pc # "idle" /\ \A k \in 1..Len(hist) : hist[k][1] \notin Selectors)
        => (run.pc = "panic" /\ run.rng = 0 /\ run.out = <<>> /\ run.i = 0)

C2_Witness ==
    /\ run.pc = "panic"
    /\ Len(hist) = 2
    /\ b.num = 0

\* C3: in a normal-spectrum build the accepted gamma is > 1, and gamma and
\* dz come from the same pair of draws (n0, n1); every particle produced
\* carries a momentum magnitude built from a gamma > 1.
C3_NormalGammaAboveOne ==
    NormalSpectrum =>
        /\ run.loc.gamma # Null =>
            LET rho == fneg(b.energy_chirp)
                n2 == fadd(fmul(rho, run.loc.n0),
                           fmul(fsqrt(fsub(One, fmul(rho, rho))), run.loc.n1))
            IN  /\ fgt(run.loc.gamma, One)
                /\ run.loc.gamma = fadd(b.gamma, fmul(b.sigma, n2))
                /\ run.loc.dz = fmul(b.sigma_z, run.loc.n0)
        /\ \A k \in 1..Len(run.out) :
            LET mag == run.out[k].u.mag
            IN  IF mag[1] = "-sqrt" THEN fgt(mag[2], Zero) ELSE fgt(mag[2], One)

\* a draw was rejected, then one accepted, for the first particle
C3_Witness ==
    /\ NormalSpectrum
    /\ run.pc = "angles"
    /\ run.i = 0
    /\ run.rng = 4
    /\ b.sigma_z # Zero
    /\ run.loc.dz # Zero

\* C4: in a bremsstrahlung build with 0 < gamma_min <= gamma_max the
\* accepted fraction x is in [gamma_min/gamma_max, 1] and gamma = x*gamma_max
\* is in [gamma_min, gamma_max].
C4_BremFractionInRange ==
    (BremSpectrum /\ fgt(b.gamma_min, Zero) /\ fle(b.gamma_min, b.gamma_max)) =>
        /\ run.loc.x # Null =>
            /\ fle(fdiv(b.gamma_min, b.gamma_max), run.loc.x)
            /\ fle(run.loc.x, One)
        /\ run.loc.gamma # Null =>
            /\ run.loc.gamma = fmul(run.loc.x, b.gamma_max)
            /\ fle(b.gamma_min, run.loc.gamma)
            /\ fle(run.loc.gamma, b.gamma_max)

\* a pair of draws was rejected before the accepted one
C4_Witness ==
    /\ BremSpectrum
    /\ flt(b.gamma_min, b.gamma_max)
    /\ run.pc = "angles"
    /\ run.i = 0
    /\ run.rng = 5
    /\ flt(run.loc.x, One)

\* C5 as stated: gamma = gamma_mean + sigma*(rho*n0 + sqrt(1 - rho^2)*n1)
\* with rho the argument of with_energy_chirp, and dz = sigma_z*n0.
C5_ChirpAsStated ==
    (NormalSpectrum /\ run.loc.gamma # Null) =>
        LET rho == b.energy_chirp
            n2 == fadd(fmul(rho, run.loc.n0),
                       fmul(fsqrt(fsub(One, fmul(rho, rho))), run.loc.n1))
        IN  /\ run.loc.dz = fmul(b.sigma_z, run.loc.n0)
            /\ run.loc.gamma = fadd(b.gamma, fmul(b.sigma, n2))

\* C5, amended: gamma = gamma_mean + sigma*(-rho*n0 + sqrt(1 - rho^2)*n1) and
\* dz = sigma_z*n0: the coefficient of n0 in gamma is -rho*sigma, so the
\* correlation between dz and gamma is the negative of the configured rho.
C5_ChirpNegated ==
    (NormalSpectrum /\ run.loc.gamma # Null) =>
        LET rho == b.energy_chirp
            n2 == fadd(fmul(fneg(rho), run.loc.n0),
                       fmul(fsqrt(fsub(One, fmul(rho, rho))), run.loc.n1))
        IN  /\ run.loc.dz = fmul(b.sigma_z, run.loc.n0)
            /\ run.loc.gamma = fadd(b.gamma, fmul(b.sigma, n2))

C5_Witness ==
    /\ NormalSpectrum
    /\ b.energy_chirp = Q(3, 5)
    /\ b.sigma = One
    /\ b.sigma_z = One
    /\ run.pc = "angles"
    /\ run.loc.n0 = One
    /\ run.loc.gamma = fadd(b.gamma, Q(-3, 5))

\* C6: t and the pre-rotation z follow the sign of offset.z; t depends only
\* on initial_z and offset.z, so all particles of a build share it, and it
\* is never later than -initial_z.
LaunchTime ==
    IF fge(b.offset[3], Zero) THEN fneg(b.initial_z)
    ELSE fsub(fneg(b.initial_z), fabs(b.offset[3]))

LaunchZ(dz) ==
    IF fge(b.offset[3], Zero) THEN fadd(fadd(b.initial_z, b.offset[3]), dz)
    ELSE fadd(b.initial_z, dz)

C6_LaunchFollowsOffsetSign ==
    /\ run.loc.t # Null => (run.loc.t = LaunchTime /\ run.loc.z = LaunchZ(run.loc.dz))
    /\ \A k \in 1..Len(run.out) :
        /\ run.out[k].r.t = LaunchTime
        /\ \E d \in RawDraws : run.out[k].r.z = LaunchZ(fmul(b.sigma_z, StandardNormal(d)))
    /\ fle(LaunchTime, fneg(b.initial_z))

\* two particles with different dz, launched earlier by |offset.z|
C6_Witness ==
    /\ flt(b.offset[3], Zero)
    /\ b.initial_z = R(5)
    /\ Len(run.out) = 2
    /\ run.out[1].r.z # run.out[2].r.z
    /\ run.out[1].r.t = R(-6)
    /\ run.out[2].r.t = R(-6)

\* C7: two runs of build on the same configuration and the same stream of
\* draws agree: at the same point of the stream they are in the same state,
\* they end with the same particles having consumed the same number of
\* draws, and nothing is read but the stream, in order.
Ended(r) == r.pc \in {"done", "panic"}

AcceptEnergy(s) ==
    \E d1, d2 \in RawDraws :
        IF s.normal_espec = Some(TRUE)
            THEN normal_loop(s, [IdleRun EXCEPT !.pc = "normal"], d1, d2).pc = "angles"
            ELSE brem_loop(s, [IdleRun EXCEPT !.pc = "brem"], d1, d2).pc = "brem_dz"

AcceptRadial(s) == \E d1, d2 \in RawDraws : radial_sample(s.radial_dstr, d1, d2).ok

CanAccept == b.num = 0 \/ (AcceptEnergy(b) /\ AcceptRadial(b))

C8_UnboundedRetries ==
    /\ []((b.normal_espec # None /\ ~CanAccept) => ~Ended(run))
    /\ ((b.normal_espec # None /\ CanAccept) ~> run.pc = "done")

\* sigma = 0 and gamma_mean <= 1: still in the loop after MaxDraws draws
C8_Witness ==
    /\ NormalSpectrum
    /\ b.sigma = Zero
    /\ fle(b.gamma, One)
    /\ b.num >= 1
    /\ run.pc = "normal"
    /\ run.rng = MaxDraws

\* C9: every configuration field is the argument of the latest with_* call
\* that sets it, or its default; a call leaves the other fields, species and
\* num as its receiver had them, and the receiver as it was; build samples
\* from the spectrum selected last.
Defaults ==
    [weight |-> One, normal_espec |-> None, gamma |-> Zero, sigma |-> Zero,
     gamma_min |-> Zero, gamma_max |-> Zero,
     radial_dstr |-> [kind |-> "Uniform", r_max |-> Zero],
     sigma_z |-> Zero, energy_chirp |-> Zero, angle |-> Zero,
     collision_plane_angle |-> Zero, rms_div |-> Zero, initial_z |-> Zero,
     offset |-> <<Zero, Zero, Zero>>, pol |-> Unpolarized]

Sets(c) ==
    CASE c[1] = "with_initial_z" -> [initial_z |-> c[2]]
      [] c[1] = "with_weight" -> [weight |-> c[2]]
      [] c[1] = "with_normal_energy_spectrum" ->
            [normal_espec |-> Some(TRUE), gamma |-> c[2], sigma |-> c[3]]
      [] c[1] = "with_bremsstrahlung_spectrum" ->
            [normal_espec |-> Some(FALSE), gamma_min |-> c[2], gamma_max |-> c[3]]
      [] c[1] = "with_divergence" -> [rms_div |-> c[2]]
      [] c[1] = "with_collision_angle" -> [angle |-> c[2]]
      [] c[1] = "with_collision_plane_at" -> [collision_plane_angle |-> c[2]]
      [] c[1] = "with_normally_distributed_xy" ->
            [radial_dstr |-> [kind |-> "Normal", sigma_x |-> c[2], sigma_y |-> c[3]]]
      [] c[1] = "with_trunc_normally_distributed_xy" ->
            [radial_dstr |-> [kind |-> "TruncNormal", sigma_x |-> c[2], sigma_y |-> c[3],
                              x_max |-> c[4], y_max |-> c[5]]]
      [] c[1] = "with_uniformly_distributed_xy" ->
            [radial_dstr |-> [kind |-> "Uniform", r_max |-> c[2]]]
      [] c[1] = "with_length" -> [sigma_z |-> c[2]]
      [] c[1] = "with_offset" -> [offset |-> c[2]]
      [] c[1] = "with_energy_chirp" -> [energy_chirp |-> c[2]]
      [] c[1] = "with_polarization" -> [pol |-> c[2]]

Latest(S) == CHOOSE m \in S : \A n \in S : n <= m

Expected(h, f) ==
    LET ks == {k \in 1..Len(h) : f \in DOMAIN Sets(h[k])}
    IN  IF ks = {} THEN Defaults[f] ELSE Sets(h[Latest(ks)])[f]

C9_LatestCallWins ==
    /\ \A f \in DOMAIN Defaults : b[f] = Expected(hist, f)
    /\ hist # <<>> =>
        /\ \A f \in DOMAIN Defaults : recv[f] = Expected(SubSeq(hist, 1, Len(hist) - 1), f)
        /\ recv.species = b.species
        /\ recv.num = b.num
    /\ run.pc = "normal" => Expected(hist, "normal_espec") = Some(TRUE)
    /\ run.pc = "brem" => Expected(hist, "normal_espec") = Some(FALSE)

\* both selectors called, the bremsstrahlung one last: build enters its loop
C9_Witness ==
    /\ Len(hist) = 2
    /\ hist[1][1] = "with_normal_energy_spectrum"
    /\ hist[2][1] = "with_bremsstrahlung_spectrum"
    /\ b.gamma = R(2)
    /\ b.gamma_max = R(2)
    /\ run.pc = "brem"

\* C10: the default push looks the field up once, at the half-step position
\* r + 0.5*c*u*dt/u[0], then calls the Vay integrator with that position, u,
\* the E and B found there, rqm, dt and eqn, and returns its result; the
\* default radiate and pair_create look the field up once at r; a model
\* without fields of its own supplies E = 0, B = 0 and amplitude 0.
HalfStepOf(r, u, dt) ==
    [base |-> r.base,
     c |-> [k \in 1..4 |-> fadd(r.c[k], fmul(fdiv(dt, R(2)), fdiv(u[k], u[1])))]]

FieldAt(model, r) ==
    IF model = "Stub" THEN <<<<Zero, Zero, Zero>>, <<Zero, Zero, Zero>>, Zero>>
    ELSE <<<<"E", r>>, <<"B", r>>, <<"a", r>>>>

C10_DefaultMethodsLookUpOnce ==
    LET a == call.args
        log == call.done.log
        ret == call.done.ret
    IN  /\ call.op = "push" =>
            LET h == HalfStepOf(a.r, a.u, a.dt)
                f == FieldAt(call.model, h)
            IN  /\ log = <<<<"fields", h>>,
                           <<"vay_push", h, a.u, f[1], f[2], a.rqm, a.dt, a.eqn>>>>
                /\ ret = <<"lcf::vay_push", h, a.u, f[1], f[2], a.rqm, a.dt, a.eqn>>
                /\ a.dt # Zero => h # a.r
        /\ call.op = "radiate" =>
            LET f == FieldAt(call.model, a.r)
            IN  /\ log = <<<<"fields", a.r>>,
                           <<"radiate", a.u, f[1], f[2], f[3], a.dt, a.rng, a.mode>>>>
                /\ ret = <<"lcf::radiate", a.u, f[1], f[2], f[3], a.dt, a.rng, a.mode>>
        /\ call.op = "pair_create" =>
            LET f == FieldAt(call.model, a.r)
            IN  /\ log = <<<<"fields", a.r>>,
                           <<"pair_create", a.ell, a.pol, f[1], f[2], f[3], a.dt, a.rng,
                             a.rate_increase>>>>
                /\ ret = <<"lcf::pair_create", a.ell, a.pol, f[1], f[2], f[3], a.dt, a.rng,
                           a.rate_increase>>

C10_Witness ==
    /\ call.op = "push"
    /\ call.model = "Stub"
    /\ call.args.dt = One
    /\ call.done.log[1][2] # call.args.r
    /\ call.done.log[2][4] = <<Zero, Zero, Zero>>

====
